---- MODULE Spec2Model ----
(***************************************************************************)
(* A model of bmwcdapi.py: the ConnectedDrive object (session, registry,   *)
(* polling gate, remote command execution) driven by callers and by the    *)
(* answers of the vendor's servers.                                        *)
(*                                                                         *)
(* Time is counted in clock ticks, Res ticks to the second, so that        *)
(* time.time() is a fractional number of seconds and int() truncates.      *)
(* token_expires is kept in whole seconds, as the code keeps it;           *)
(* last_update_time and cur_time are kept in ticks (floats in the code).   *)
(***************************************************************************)
EXTENDS Integers, Sequences, FiniteSets, TLC

\* ----- bounds of the model
Res == 2          \* clock ticks per second
MaxTicks == 2     \* how many times the environment lets time pass
MaxCalls == 1     \* how many public calls follow the construction

\* ----- program constants
UPDATE_INTERVAL == 600   \* the default of __init__'s parameter update_interval
update_interval == 120   \* __init__: self.update_interval = 120, whatever was passed
max_retries == 9         \* execute_service
interval == 10           \* execute_service, seconds slept before each poll

\* ----- values
Callers == {1, 2}        \* threads that may call into the one shared object
Main == 1                \* the thread that constructs the object

None == "None"
Tokens == {"tokA", "tokB"}
ExpiresIn == {0, 1, 300}               \* expires_in values the auth server may send
VINs == {"V1", "V2"}
Services == {"lock"}                   \* the commands the callers send ...
ExecVINs == {"V1"}                     \* ... and the vehicle they send them to
TickSteps == {1, Res * update_interval}

service_codes ==
    [s \in {"climate", "lock", "unlock", "light", "horn"} |->
        CASE s = "climate" -> "RCN"
          [] s = "lock"    -> "RDL"
          [] s = "unlock"  -> "RDU"
          [] s = "light"   -> "RLF"
          [] s = "horn"    -> "RHB"]

Vehicle(v) == [vin |-> v, brand |-> "BMW", modelName |-> IF v = "V1" THEN "i3" ELSE "X5"]
Registries == {<< >>, <<Vehicle("V1"), Vehicle("V2")>>}

\* attributesMap of the dynamic endpoint, reduced to the two keys update() reads;
\* remaining_fuel = "absent" is a map without that key
AttrMaps ==
    { [charging_status |-> FALSE, remaining_fuel |-> "35"],
      [charging_status |-> TRUE,  remaining_fuel |-> "0"],
      [charging_status |-> TRUE,  remaining_fuel |-> "35"],
      [charging_status |-> TRUE,  remaining_fuel |-> "absent"] }

\* the maps the vehicles of the account under test answer with: a combustion car
\* and a map that lacks remaining_fuel
PollMaps ==
    { [charging_status |-> FALSE, remaining_fuel |-> "35"],
      [charging_status |-> TRUE,  remaining_fuel |-> "absent"] }

\* values a caller may pass to __init__ as update_interval
GivenIntervals == {60, update_interval, UPDATE_INTERVAL}

GetStatuses == {200, 500}
PostStatuses == {200, 202, 500}
PollTexts == {"PENDING", "EXECUTED", "malformed"}

\* answers of the auth endpoint, by what generate_credentials can see of them
LoginResponses ==
    { [kind |-> "token", status |-> 302, exp |-> e] : e \in ExpiresIn }
    \cup { [kind |-> "denied",   status |-> 302, exp |-> 0],
           [kind |-> "neterr",   status |-> 0,   exp |-> 0],
           [kind |-> "absent",   status |-> 500, exp |-> 0],
           [kind |-> "garbage",  status |-> 302, exp |-> 0] }

VARIABLES
    now, ticks,                                   \* the clock, and how often it was advanced
    is_valid_session, accesstoken, token_expires, \* the session
    last_update_time, is_updated, cars_data,      \* the polling state
    cars, bmw_vin, lock,                          \* registry, shared vin field, self._lock
    pc, op, stk,                                  \* per caller: position, public call, return stack
    cur_time, it, hdr, arg, res, ret,             \* per caller: locals and results
    i, remote_service_status,                     \* per caller: execute_service's loop
    sent, last, outcome,                          \* per caller: what the call did
    maps,                                         \* the attribute maps the server sends
    arg_update_interval,                          \* what __init__ was given as update_interval
    last_login, last_exp,                         \* history
    calls                                         \* per caller: public calls made so far

sessionVars == <<is_valid_session, accesstoken, token_expires>>
pollVars    == <<last_update_time, is_updated, cars_data>>
clockVars   == <<now, ticks>>
execVars    == <<i, remote_service_status>>
histVars    == <<last_login, last_exp, maps, arg_update_interval>>
vars == <<now, ticks, is_valid_session, accesstoken, token_expires,
          last_update_time, is_updated, cars_data, cars, bmw_vin, lock,
          pc, op, stk, cur_time, it, hdr, arg, res, ret,
          i, remote_service_status, sent, last, outcome,
          last_login, last_exp, maps, arg_update_interval, calls>>

Set(f, t, v) == [f EXCEPT ![t] = v]

\* ----- values returned by the methods
RNone     == [kind |-> "none"]
RInt(c)   == [kind |-> "int", val |-> c]
RList(l)  == [kind |-> "list", val |-> l]
RMap(m)   == [kind |-> "map", val |-> m]
RBody     == [kind |-> "body"]
RBool(b)  == [kind |-> "bool", val |-> b]
RRaise(e) == [kind |-> "raise", val |-> e]

\* ----- what a call has done so far: how many requests of each kind it has sent and
\* how often it has slept (sent), and its latest request with the answer to it (last)
NoneSent == [login |-> 0, get |-> 0, post |-> 0, status |-> 0, sleep |-> 0]
Ev(k, tok, vin, dt, code, text) ==
    [kind |-> k, tok |-> tok, vin |-> vin, dt |-> dt, code |-> code, text |-> text]
NoEv == Ev(None, None, None, None, 0, "")
Count(c, k) == [c EXCEPT ![k] = @ + 1]
NoArg == [dt |-> None, sub |-> None, vin |-> None]

\* int(x) of a time x
IntOf(x) == x \div Res

\* the fields and locals at the start of __init__, lines 90-119
InitFields ==
    /\ now = Res * UPDATE_INTERVAL + 1
    /\ ticks = 0
    /\ is_valid_session = FALSE
    /\ accesstoken = None
    /\ token_expires = 0
    /\ last_update_time = 0
    /\ is_updated = FALSE
    /\ cars_data = << >>
    /\ cars = RList(<< >>)
    /\ bmw_vin = None
    /\ lock = 0
    /\ pc = [t \in Callers |-> IF t = Main THEN "gc_post" ELSE "idle"]
    /\ op = [t \in Callers |-> IF t = Main THEN "init" ELSE None]
    /\ stk = [t \in Callers |-> IF t = Main THEN <<"init_1">> ELSE << >>]
    /\ cur_time = [t \in Callers |-> 0]
    /\ it = [t \in Callers |-> << >>]
    /\ hdr = [t \in Callers |-> None]
    /\ arg = [t \in Callers |-> NoArg]
    /\ res = [t \in Callers |-> RNone]
    /\ ret = [t \in Callers |-> RNone]
    /\ i = [t \in Callers |-> 0]
    /\ remote_service_status = [t \in Callers |-> None]
    /\ sent = [t \in Callers |-> NoneSent]
    /\ last = [t \in Callers |-> NoEv]
    /\ outcome = [t \in Callers |-> None]
    /\ last_login = "none"
    /\ last_exp = 0
    /\ calls = [t \in Callers |-> 0]

\* ConnectedDrive() as main() makes it, line 387: update_interval left at its default
Init ==
    /\ InitFields
    /\ maps = PollMaps
    /\ arg_update_interval = UPDATE_INTERVAL

\* ConnectedDrive(update_interval = g) for an account whose vehicles answer with any
\* of the attribute maps
InitInputs ==
    /\ InitFields
    /\ maps = AttrMaps
    /\ arg_update_interval \in GivenIntervals

\* the auth server never hands out the token it handed out last
FreshToken == IF accesstoken = "tokA" THEN "tokB" ELSE "tokA"

\* where the model lets time pass: between two calls, and in update() between the
\* last fetch of a cycle and line 155, where the completion time is read
\* (time.sleep in execute_service moves the clock by itself)
ReadsClock(t) ==
    \/ pc[t] = "idle"
    \/ pc[t] = "upd_loop" /\ it[t] = << >>

\* ----- the environment: time passes
Tick(d) ==
    /\ ticks < MaxTicks
    /\ ReadsClock(Main)
    /\ now' = now + d
    /\ ticks' = ticks + 1
    /\ UNCHANGED <<sessionVars, pollVars, cars, bmw_vin, lock, pc, op, stk, cur_time, it,
                   hdr, arg, res, ret, execVars, sent, last, outcome, histVars, calls>>

\* ----- call and return
\* a method returns v: to its caller's next position, or out of the public call
Return(t, v) ==
    /\ stk' = Set(stk, t, Tail(stk[t]))
    /\ IF Head(stk[t]) = "done"
         THEN pc' = Set(pc, t, "idle") /\ ret' = Set(ret, t, v) /\ res' = res
         ELSE pc' = Set(pc, t, Head(stk[t])) /\ res' = Set(res, t, v) /\ ret' = ret


\* a with-block that keeps the lock when it is left
LockKept(t) == lock

\* line 129: leaving the with-block releases the lock if the caller holds it
LockReleased(t) == IF lock = t THEN 0 ELSE lock

\* a lock that anyone can take at any time
CanAcquireAlways(t) == TRUE

\* line 129: with self._lock is entered when the RLock is free or the caller's own
CanAcquire(t) == lock \in {0, t}

\* an exception e unwinds the whole call; update()'s with-block releases the lock;
\* an exception in __init__ leaves no object to call
Raise(t, e) ==
    /\ stk' = Set(stk, t, << >>)
    /\ pc' = Set(pc, t, IF op[t] = "init" THEN "dead" ELSE "idle")
    /\ ret' = Set(ret, t, RRaise(e))
    /\ res' = res
    /\ lock' = LockReleased(t)
    /\ outcome' = Set(outcome, t, "raise")


\* the object exists once __init__ has returned
Constructed == op[Main] # "init" \/ pc[Main] = "idle"
Idle(t) == pc[t] = "idle" /\ Constructed /\ calls[t] < MaxCalls

\* a public method is called: fresh locals, an empty log
StartCall(t, name, a, first, stack) ==
    /\ op' = Set(op, t, name)
    /\ arg' = Set(arg, t, a)
    /\ pc' = Set(pc, t, first)
    /\ stk' = Set(stk, t, stack)
    /\ sent' = Set(sent, t, NoneSent)
    /\ last' = Set(last, t, NoEv)
    /\ outcome' = Set(outcome, t, None)
    /\ ret' = Set(ret, t, RNone)
    /\ res' = Set(res, t, RNone)
    /\ it' = Set(it, t, << >>)
    /\ hdr' = Set(hdr, t, None)
    /\ i' = Set(i, t, 0)
    /\ remote_service_status' = Set(remote_service_status, t, None)
    /\ calls' = Set(calls, t, calls[t] + 1)

\* ===== Credential manager =====


\* a token_valid that renews only after the second of expiry has passed
TokenExpiredLate(cur) == IntOf(cur) > token_expires

\* token_valid, line 174: int(cur_time) >= int(self.token_expires)
TokenExpired(cur) == IntOf(cur) >= token_expires

\* generate_credentials, line 207: 'error=access_denied' in my_payload
AccessDenied(r) == r.kind = "denied"


\* a generate_credentials that leaves is_valid_session alone on access denied
DeniedValidityKept == is_valid_session

\* generate_credentials, line 208: the value given to is_valid_session on access denied
DeniedValidity == FALSE

\* generate_credentials, line 215: int(time.time()) + int(expires_in)
NewExpiry(t0, e) == IntOf(t0) + e

\* what the login answer makes generate_credentials do: "raise" where requests.post
\* (line 200), headers['Location'] (line 206) or result_m.group (line 212) raises
LoginPath(r) ==
    CASE r.kind = "neterr"  -> "raise"
      [] r.kind = "absent"  -> "raise"
      [] AccessDenied(r)    -> "denied"
      [] r.kind = "garbage" -> "raise"
      [] OTHER              -> "token"

LoginError(r) ==
    CASE r.kind = "neterr" -> "ConnectionError"
      [] r.kind = "absent" -> "KeyError"
      [] OTHER             -> "AttributeError"

\* token_valid(): the check; an expired token leads on to generate_credentials
TokenValid(t) ==
    /\ pc[t] = "tv"
    /\ IF TokenExpired(now)
         THEN /\ pc' = Set(pc, t, "gc_post")
              /\ UNCHANGED <<stk, res, ret>>
         ELSE Return(t, RNone)
    /\ UNCHANGED <<clockVars, sessionVars, pollVars, cars, bmw_vin, lock, op, cur_time, it,
                   hdr, arg, execVars, sent, last, outcome, histVars, calls>>

\* generate_credentials(): one POST to the auth endpoint and what its answer does
GenerateCredentials(t) ==
    /\ pc[t] = "gc_post"
    /\ \E r \in LoginResponses :
        /\ sent' = Set(sent, t, Count(sent[t], "login"))
        /\ last' = Set(last, t, Ev("login", None, None, None, r.status, r.kind))
            /\ CASE LoginPath(r) = "raise" ->
                  /\ Raise(t, LoginError(r))
                  /\ last_login' = "fault"
                  /\ UNCHANGED <<sessionVars, last_exp>>
             [] LoginPath(r) = "denied" ->
                  /\ is_valid_session' = DeniedValidity
                  /\ Return(t, RNone)
                  /\ last_login' = "denied"
                  /\ UNCHANGED <<accesstoken, token_expires, last_exp, lock, outcome>>
             [] OTHER ->
                  /\ accesstoken' = FreshToken
                  /\ token_expires' = NewExpiry(now, r.exp)
                  /\ is_valid_session' = TRUE
                  /\ Return(t, RNone)
                  /\ last_login' = "ok"
                  /\ last_exp' = r.exp
                  /\ UNCHANGED <<lock, outcome>>
    /\ UNCHANGED <<clockVars, pollVars, cars, bmw_vin, op, cur_time, it, hdr, arg,
                   execVars, maps, arg_update_interval, calls>>

\* a caller calls token_valid()
CallTokenValid(t) ==
    /\ Idle(t)
    /\ StartCall(t, "token_valid", NoArg, "tv", <<"done">>)
    /\ UNCHANGED <<clockVars, sessionVars, pollVars, cars, bmw_vin, lock, cur_time, histVars>>

\* ===== request_car_data =====

\* lines 222-226: the headers, with 'Bearer ' + self.accesstoken, are built first
RcdHeaders(t) ==
    /\ pc[t] = "rcd_hdr"
    /\ IF accesstoken = None
         THEN Raise(t, "TypeError") /\ hdr' = hdr
         ELSE /\ hdr' = Set(hdr, t, accesstoken)
              /\ pc' = Set(pc, t, "tv")
              /\ stk' = Set(stk, t, <<"rcd_vin">> \o stk[t])
              /\ UNCHANGED <<res, ret, lock, outcome>>
    /\ UNCHANGED <<clockVars, sessionVars, pollVars, cars, bmw_vin, op, cur_time, it, arg,
                   execVars, sent, last, histVars, calls>>

\* lines 229-230: if vin is not None: self.bmw_vin = vin
RcdSetVin(t) ==
    /\ pc[t] = "rcd_vin"
    /\ bmw_vin' = IF arg[t].vin # None THEN arg[t].vin ELSE bmw_vin
    /\ pc' = Set(pc, t, "rcd_get")
    /\ UNCHANGED <<clockVars, sessionVars, pollVars, cars, lock, op, stk, cur_time, it, hdr,
                   arg, res, ret, execVars, sent, last, outcome, histVars, calls>>

\* lines 232-237: the vin in the url
UrlVin(dt) == IF dt = "get_cars" THEN None ELSE bmw_vin

\* the decoded bodies a 200 answer can carry, lines 245-248
Bodies(dt, sub) ==
    IF dt = "dynamic" /\ sub = "attributesMap" THEN { RMap(m) : m \in maps }
    ELSE IF dt = "get_cars" THEN { RList(r) : r \in Registries }
    ELSE { RBody }

\* lines 243-252: the decoded body on 200, the status code otherwise
RequestResult(st, b) == IF st = 200 THEN b ELSE RInt(st)

\* lines 232-252: the GET and its result
RcdGet(t) ==
    /\ pc[t] = "rcd_get"
    /\ \E st \in GetStatuses, b \in Bodies(arg[t].dt, arg[t].sub) :
        /\ sent' = Set(sent, t, Count(sent[t], "get"))
        /\ last' = Set(last, t, Ev("get", hdr[t], UrlVin(arg[t].dt), arg[t].dt, st, ""))
        /\ Return(t, RequestResult(st, b))
    /\ UNCHANGED <<clockVars, sessionVars, pollVars, cars, bmw_vin, lock, op, cur_time, it,
                   hdr, arg, execVars, outcome, histVars, calls>>

\* ===== Vehicle registry and the single fetches =====

CallGetCars(t) ==
    /\ Idle(t)
    /\ StartCall(t, "get_cars", [dt |-> "get_cars", sub |-> None, vin |-> None],
                 "rcd_hdr", <<"gcars_ret", "done">>)
    /\ UNCHANGED <<clockVars, sessionVars, pollVars, cars, bmw_vin, lock, cur_time, histVars>>

\* get_cars, lines 256-272: self.cars is whatever came back; iterating an int raises
GetCarsRet(t) ==
    /\ pc[t] = "gcars_ret"
    /\ cars' = res[t]
    /\ IF res[t].kind = "int"
         THEN Raise(t, "TypeError")
         ELSE Return(t, res[t]) /\ UNCHANGED <<lock, outcome>>
    /\ UNCHANGED <<clockVars, sessionVars, pollVars, bmw_vin, op, cur_time, it, hdr, arg,
                   execVars, sent, last, histVars, calls>>

\* get_car_data(vin): request_car_data('dynamic', 'attributesMap', vin)
CallGetCarData(t, v) ==
    /\ Idle(t)
    /\ StartCall(t, "get_car_data", [dt |-> "dynamic", sub |-> "attributesMap", vin |-> v],
                 "rcd_hdr", <<"done">>)
    /\ UNCHANGED <<clockVars, sessionVars, pollVars, cars, bmw_vin, lock, cur_time, histVars>>

\* get_car_navigation(vin): request_car_data('navigation', vin), vin in second place
CallGetCarNavigation(t, v) ==
    /\ Idle(t)
    /\ StartCall(t, "get_car_navigation", [dt |-> "navigation", sub |-> v, vin |-> None],
                 "rcd_hdr", <<"done">>)
    /\ UNCHANGED <<clockVars, sessionVars, pollVars, cars, bmw_vin, lock, cur_time, histVars>>


\* ===== Polling controller: update() =====


\* a gate that opens already when exactly update_interval has elapsed
GatePassedAtInterval(cur) == cur - last_update_time >= update_interval * Res

\* line 130: cur_time - self.last_update_time > self.update_interval
GatePassed(cur) == cur - last_update_time > update_interval * Res

\* line 137: type(car_data) is int
FetchFailed(r) == r.kind = "int"


\* an update() that hands back what it has collected when a fetch fails
AbortResultPartial == RList(cars_data)

\* line 139: what update() returns when a fetch failed
AbortResult == RNone


\* a classification that takes every vehicle with a charging status for electric
TypeOfCarNoHybrid(m) == IF m.charging_status THEN "electric" ELSE "fuel"

\* lines 143-149: the powertrain class of an attribute map
TypeOfCar(m) ==
    IF m.charging_status
      THEN IF m.remaining_fuel = "0" THEN "electric" ELSE "hybrid"
      ELSE "fuel"

\* lines 141-150: the map with vin, car_name and type_of_car added
Snapshot(car, m) ==
    [vin |-> car.vin, car_name |-> <<car.brand, car.modelName>>,
     charging_status |-> m.charging_status, remaining_fuel |-> m.remaining_fuel,
     type_of_car |-> TypeOfCar(m)]


\* an update() that stamps the cycle with the clock reading of its start
CompletionTimeAtStart(t) == cur_time[t]

\* line 155: self.last_update_time = time.time(), read when the cycle is complete
CompletionTime(t) == now

\* line 128: update() reads the clock before it takes the lock
EnterUpdate(t) == cur_time' = Set(cur_time, t, now)

CallUpdate(t) ==
    /\ Idle(t)
    /\ StartCall(t, "update", NoArg, "upd_lock", <<"done">>)
    /\ EnterUpdate(t)
    /\ UNCHANGED <<clockVars, sessionVars, pollVars, cars, bmw_vin, lock, histVars>>

\* lines 129-131 and 166-169: take the lock, then the gate
UpdateGate(t) ==
    /\ pc[t] = "upd_lock"
    /\ CanAcquire(t)
    /\ IF GatePassed(cur_time[t])
         THEN /\ cars_data' = << >>
              /\ is_updated' = is_updated
              /\ IF cars.kind = "int"
                   THEN Raise(t, "TypeError") /\ it' = it
                   ELSE /\ lock' = t
                        /\ it' = Set(it, t, cars.val)
                        /\ pc' = Set(pc, t, "upd_loop")
                        /\ UNCHANGED <<stk, res, ret, outcome>>
         ELSE /\ is_updated' = FALSE
              /\ Return(t, RNone)
              /\ outcome' = Set(outcome, t, "gated")
              /\ UNCHANGED <<cars_data, lock, it>>
    /\ UNCHANGED <<clockVars, sessionVars, last_update_time, cars, bmw_vin, op, cur_time,
                   hdr, arg, execVars, sent, last, histVars, calls>>

\* lines 132-135 and 154-165: the next vehicle's fetch, or the end of the cycle
UpdateLoop(t) ==
    /\ pc[t] = "upd_loop"
    /\ IF it[t] = << >>
         THEN /\ last_update_time' = CompletionTime(t)
              /\ is_updated' = TRUE
              /\ Return(t, RList(cars_data))
              /\ lock' = LockReleased(t)
              /\ outcome' = Set(outcome, t, "ok")
              /\ arg' = arg
         ELSE /\ arg' = Set(arg, t, [dt |-> "dynamic", sub |-> "attributesMap",
                                     vin |-> Head(it[t]).vin])
              /\ pc' = Set(pc, t, "rcd_hdr")
              /\ stk' = Set(stk, t, <<"upd_proc">> \o stk[t])
              /\ UNCHANGED <<last_update_time, is_updated, res, ret, lock, outcome>>
    /\ UNCHANGED <<clockVars, sessionVars, cars_data, cars, bmw_vin, op, cur_time, it, hdr,
                   execVars, sent, last, histVars, calls>>

\* lines 137-153: the fetched value is a status code (abort) or a map (classify, append)
UpdateProcess(t) ==
    /\ pc[t] = "upd_proc"
    /\ IF FetchFailed(res[t])
         THEN /\ Return(t, AbortResult)
              /\ lock' = LockReleased(t)
              /\ outcome' = Set(outcome, t, "aborted")
              /\ UNCHANGED <<cars_data, it>>
         ELSE IF res[t].val.charging_status /\ res[t].val.remaining_fuel = "absent"
           THEN Raise(t, "KeyError") /\ UNCHANGED <<cars_data, it>>
           ELSE /\ cars_data' = Append(cars_data, Snapshot(Head(it[t]), res[t].val))
                /\ it' = Set(it, t, Tail(it[t]))
                /\ pc' = Set(pc, t, "upd_loop")
                /\ UNCHANGED <<stk, res, ret, lock, outcome>>
    /\ UNCHANGED <<clockVars, sessionVars, last_update_time, is_updated, cars, bmw_vin, op,
                   cur_time, hdr, arg, execVars, sent, last, histVars, calls>>

\* ===== Command executor: execute_service =====


\* an execute_service that takes any 2xx answer for an acknowledgement
PostAckedAny2xx(st) == st \div 100 = 2

\* line 361: execute_response.status_code != 200 means rejected
PostAcked(st) == st = 200


\* a poll loop that goes one round too far
LoopContinuesOneMore(k) == k < max_retries

\* line 365: for i in range(max_retries): another round follows round k
LoopContinues(k) == k + 1 < max_retries

\* lines 374 and 378: remote_service_status == 'EXECUTED'
Executed(text) == text = "EXECUTED"

CallExecute(t, s, v) ==
    /\ Idle(t)
    /\ StartCall(t, "execute_service", [dt |-> s, sub |-> None, vin |-> v],
                 "tv", <<"ex_hdr", "done">>)
    /\ UNCHANGED <<clockVars, sessionVars, pollVars, cars, bmw_vin, lock, cur_time, histVars>>

\* lines 345-349: the headers, built after token_valid() has returned
ExHeaders(t) ==
    /\ pc[t] = "ex_hdr"
    /\ IF accesstoken = None
         THEN Raise(t, "TypeError") /\ hdr' = hdr
         ELSE /\ hdr' = Set(hdr, t, accesstoken)
              /\ pc' = Set(pc, t, "ex_post")
              /\ UNCHANGED <<stk, res, ret, lock, outcome>>
    /\ UNCHANGED <<clockVars, sessionVars, pollVars, cars, bmw_vin, op, cur_time, it, arg,
                   execVars, sent, last, histVars, calls>>

\* lines 352-363: the command POST
ExPost(t) ==
    /\ pc[t] = "ex_post"
    /\ \E st \in PostStatuses :
        /\ sent' = Set(sent, t, Count(sent[t], "post"))
        /\ last' = Set(last, t, Ev("post", hdr[t], arg[t].vin, service_codes[arg[t].dt], st, ""))
        /\ IF PostAcked(st)
             THEN /\ pc' = Set(pc, t, "ex_sleep")
                  /\ UNCHANGED <<stk, res, ret>>
             ELSE Return(t, RBool(FALSE))
    /\ UNCHANGED <<clockVars, sessionVars, pollVars, cars, bmw_vin, lock, op, cur_time, it,
                   hdr, arg, execVars, outcome, histVars, calls>>


\* a sleep that lasts twice the interval
SleptTwice(t0) == t0 + 2 * interval * Res

\* line 366: the clock after time.sleep(interval) begun at t0
Slept(t0) == t0 + interval * Res

\* line 366: time.sleep(interval)
ExSleep(t) ==
    /\ pc[t] = "ex_sleep"
    /\ now' = Slept(now)
    /\ sent' = Set(sent, t, Count(sent[t], "sleep"))
    /\ last' = last
    /\ pc' = Set(pc, t, "ex_poll")
    /\ UNCHANGED <<ticks, sessionVars, pollVars, cars, bmw_vin, lock, op, stk, cur_time, it,
                   hdr, arg, res, ret, execVars, outcome, histVars, calls>>

\* lines 367-382: one status GET (its status code is not looked at), the test for
\* EXECUTED, and the end of the loop
ExPoll(t) ==
    /\ pc[t] = "ex_poll"
    /\ \E text \in PollTexts :
        /\ sent' = Set(sent, t, Count(sent[t], "status"))
        /\ last' = Set(last, t, Ev("status", hdr[t], arg[t].vin, "state/execution", 200, text))
        /\ IF text = "malformed"
             THEN Raise(t, "ParseError") /\ UNCHANGED execVars
             ELSE /\ remote_service_status' = Set(remote_service_status, t, text)
                  /\ UNCHANGED <<lock, outcome>>
                  /\ IF ~Executed(text) /\ LoopContinues(i[t])
                       THEN /\ i' = Set(i, t, i[t] + 1)
                            /\ pc' = Set(pc, t, "ex_sleep")
                            /\ UNCHANGED <<stk, res, ret>>
                       ELSE /\ i' = i
                            /\ Return(t, RBool(Executed(text)))
    /\ UNCHANGED <<clockVars, sessionVars, pollVars, cars, bmw_vin, op, cur_time, it, hdr,
                   arg, histVars, calls>>

\* ===== __init__, lines 119-122 =====

\* line 120-121: after generate_credentials, get_cars() only in a valid session
InitAfterLogin(t) ==
    /\ pc[t] = "init_1"
    /\ IF is_valid_session
         THEN /\ arg' = Set(arg, t, [dt |-> "get_cars", sub |-> None, vin |-> None])
              /\ pc' = Set(pc, t, "rcd_hdr")
              /\ stk' = Set(stk, t, <<"gcars_ret", "init_2">>)
         ELSE /\ pc' = Set(pc, t, "idle")
              /\ UNCHANGED <<arg, stk>>
    /\ UNCHANGED <<clockVars, sessionVars, pollVars, cars, bmw_vin, lock, op, cur_time, it,
                   hdr, res, ret, execVars, sent, last, outcome, histVars, calls>>

\* line 122: update()
InitAfterCars(t) ==
    /\ pc[t] = "init_2"
    /\ EnterUpdate(t)
    /\ pc' = Set(pc, t, "upd_lock")
    /\ stk' = Set(stk, t, <<"done">>)
    /\ UNCHANGED <<clockVars, sessionVars, pollVars, cars, bmw_vin, lock, op, it, hdr, arg,
                   res, ret, execVars, sent, last, outcome, histVars, calls>>

\* ===== the specification =====

\* a running call goes one step on: session, registry, polling and construction ...
Step(t) ==
    \/ TokenValid(t)
    \/ GenerateCredentials(t)
    \/ RcdHeaders(t)
    \/ RcdSetVin(t)
    \/ RcdGet(t)
    \/ GetCarsRet(t)
    \/ UpdateGate(t)
    \/ UpdateLoop(t)
    \/ UpdateProcess(t)
    \/ InitAfterLogin(t)
    \/ InitAfterCars(t)

\* ... and the command executor
StepExec(t) ==
    \/ ExHeaders(t)
    \/ ExPost(t)
    \/ ExSleep(t)
    \/ ExPoll(t)

\* the calls of the session, the registry and the polling controller
Call(t) ==
    \/ CallTokenValid(t)
    \/ CallGetCars(t)
    \/ CallUpdate(t)
    \/ \E v \in VINs : CallGetCarData(t, v)
    \/ \E v \in VINs : CallGetCarNavigation(t, v)

\* the calls of the command executor
CallExec(t) ==
    \/ CallTokenValid(t)
    \/ \E s \in Services, v \in ExecVINs : CallExecute(t, s, v)

Time == \E d \in TickSteps : Tick(d)

\* one caller, the thread that made the object, polling and fetching
Next ==
    \/ Time
    \/ Step(Main)
    \/ Call(Main)

Spec == Init /\ [][Next]_vars

\* one caller that only polls
NextPoll ==
    \/ Time
    \/ Step(Main)
    \/ CallUpdate(Main)

\* polling, for any interval given at construction and any attribute map
SpecPoll == InitInputs /\ [][NextPoll]_vars

\* where time passes when several threads call: before a call and before line 155
ReadsClockSoon(t) ==
    \/ Idle(t)
    \/ pc[t] = "upd_loop" /\ it[t] = << >>

TickAny(d) ==
    /\ ticks < MaxTicks
    /\ \E t \in Callers : ReadsClockSoon(t)
    /\ now' = now + d
    /\ ticks' = ticks + 1
    /\ UNCHANGED <<sessionVars, pollVars, cars, bmw_vin, lock, pc, op, stk, cur_time, it,
                   hdr, arg, res, ret, execVars, sent, last, outcome, histVars, calls>>

TimeAny == \E d \in TickSteps : TickAny(d)

\* the calls the threads of the concurrent runs make
CallShared(t) ==
    \/ CallUpdate(t)
    \/ \E v \in ExecVINs : CallGetCarData(t, v)

\* the thread that made the object and a second one, polling and fetching at once
NextShared ==
    \/ TimeAny
    \/ \E t \in Callers : Step(t)
    \/ \E t \in Callers : CallShared(t)

SpecShared == Init /\ [][NextShared]_vars

\* one caller, the thread that made the object, sending commands
NextExec ==
    \/ Time
    \/ Step(Main)
    \/ StepExec(Main)
    \/ CallExec(Main)

SpecExec == Init /\ [][NextExec]_vars

\* the caller keeps running: a call that has started is carried on step by step
FairSpecExec == SpecExec /\ WF_vars(Step(Main) \/ StepExec(Main))

\* ===== Properties =====

\* the step in which caller t leaves position p
Leaves(t, p) == pc[t] = p /\ pc'[t] # p

\* the step in which caller t sends a request of kind k
Sends(t, k) == sent'[t][k] = sent[t][k] + 1

\* C1: a call of update() that finds now - last_update_time <= update_interval at its
\* gate (now read at the start of the call) returns the not-updated result at once and
\* has sent no request at all.
C1_PollingGate ==
    [][\A t \in Callers :
         (Leaves(t, "upd_lock") /\ cur_time[t] - last_update_time <= update_interval * Res)
           => /\ pc'[t] = "idle"
              /\ ret'[t].kind = "none"
              /\ outcome'[t] = "gated"
              /\ sent'[t] = sent[t]
              /\ (op[t] = "update" => sent'[t] = NoneSent)]_vars

\* a gated update() exactly update_interval after the last cycle, with vehicles
\* registered and the token expired
C1_Witness ==
    /\ pc[Main] = "idle" /\ op[Main] = "update" /\ outcome[Main] = "gated"
    /\ cur_time[Main] - last_update_time = update_interval * Res
    /\ cars.kind = "list" /\ Len(cars.val) = 2
    /\ TokenExpired(now)
    /\ sent[Main] = NoneSent

\* C2: when a vehicle's fetch comes back as a status code, update() ends in that very
\* step: it returns no list and sends nothing more, whatever vehicles remain.
C2_AbortWholeCycle ==
    [][\A t \in Callers :
         (Leaves(t, "upd_proc") /\ res[t].kind = "int")
           => /\ pc'[t] = "idle"
              /\ ret'[t].kind = "none"
              /\ sent'[t] = sent[t]
              /\ it'[t] = it[t]]_vars

\* an update() that failed on the first of two vehicles and never fetched the second
C2_Witness ==
    /\ pc[Main] = "idle" /\ op[Main] = "update" /\ outcome[Main] = "aborted"
    /\ ret[Main].kind = "none"
    /\ sent[Main].get = 1 /\ Len(it[Main]) = 2

\* C3: after an update() cycle in which a fetch failed, cars_data holds no snapshot of
\* that cycle (the list is emptied at the start of every cycle, so whatever it holds
\* after the abort was produced by the aborted cycle).
C3_NoSnapshotsRetained ==
    \A t \in Callers : (pc[t] = "idle" /\ outcome[t] = "aborted") => Len(cars_data) = 0

\* C4: token_valid() goes on to the login exchange exactly when now >= token_expires;
\* otherwise it sends nothing and leaves the session as it is.
C4_LazyRenewal ==
    [][\A t \in Callers :
         Leaves(t, "tv")
           => /\ (now >= token_expires * Res) <=> (pc'[t] = "gc_post")
              /\ (now < token_expires * Res)
                   => (sent'[t] = sent[t] /\ UNCHANGED sessionVars)]_vars

\* a call of token_valid() within the validity of a token with expires_in > 0:
\* nothing sent, session valid
C4_Witness ==
    /\ pc[Main] = "idle" /\ op[Main] = "token_valid"
    /\ sent[Main] = NoneSent
    /\ last_login = "ok" /\ last_exp > 0 /\ is_valid_session
    /\ now < token_expires * Res

\* C5: every authenticated request (data GET, command POST, status GET) carries in its
\* Authorization header the access token the session holds when the request is sent,
\* that is after the validity check of the call.
C5_RefreshBeforeRequest ==
    [][\A t \in Callers :
         (Sends(t, "get") \/ Sends(t, "post") \/ Sends(t, "status"))
           => last'[t].tok = accesstoken']_vars

\* C6: while the latest login was answered with access denied and the session is
\* invalid, no data GET is sent.
C6_InvalidSessionBlocksFetch ==
    [][\A t \in Callers :
         (last_login = "denied" /\ ~is_valid_session) => ~Sends(t, "get")]_vars

\* the step in which a validity check or a login of caller t is completed, other than
\* by a transport failure of the login
CheckDone(t) ==
    \/ Leaves(t, "tv") /\ pc'[t] # "gc_post"
    \/ Leaves(t, "gc_post") /\ last_login' # "fault"

\* C7 as claimed: a valid session has an access token, and after every validity check
\* or login (successful or access-denied, any expires_in >= 0) that leaves the session
\* valid, token_expires is strictly in the future.
C7_SessionInvariantAnyExpiry ==
    [][/\ is_valid_session' => accesstoken' # None
       /\ \A t \in Callers :
            (CheckDone(t) /\ is_valid_session') => token_expires' * Res > now]_vars

\* C7: a valid session has an access token, and after every validity check or login
\* (successful or access-denied) that leaves the session valid, token_expires is
\* strictly in the future, provided the latest successful login carried
\* expires_in >= 1.
C7_SessionInvariant ==
    [][/\ is_valid_session' => accesstoken' # None
       /\ \A t \in Callers :
            (CheckDone(t) /\ is_valid_session' /\ last_exp' >= 1)
              => token_expires' * Res > now]_vars

\* a session renewed in a call after a construction that logged in and polled, valid,
\* with its token's expiry ahead
C7_Witness ==
    /\ pc[Main] = "idle" /\ op[Main] # "init" /\ last_update_time > 0
    /\ sent[Main].login = 1 /\ last_login = "ok" /\ last_exp >= 1
    /\ is_valid_session /\ accesstoken # None
    /\ token_expires * Res > now

\* C8: a login that fails at the transport level leaves the session invalid, and
\* generate_credentials has sent exactly one POST (looked at in the calls made on
\* the constructed object, where the session outlives the failure).
C8_LoginTransportFailure ==
    [][\A t \in Callers :
         (Leaves(t, "gc_post") /\ last_login' = "fault" /\ op[t] # "init")
           => (~is_valid_session' /\ sent'[t].login = sent[t].login + 1)]_vars

\* the positions of execute_service's poll loop
InPollLoop(t) == pc[t] \in {"ex_sleep", "ex_poll"}

\* what C9 says of every state of a call of execute_service
C9_Polls(t) ==
    /\ sent[t].status <= max_retries
    /\ InPollLoop(t)
         => /\ sent[t].status < max_retries
            /\ sent[t].post = 1
            /\ last[t].kind = "status" => last[t].text = "PENDING"
    /\ (pc[t] = "idle" /\ op[t] = "execute_service" /\ ret[t].kind = "bool"
          /\ last[t].kind = "status")
         => /\ ret[t].val <=> (last[t].text = "EXECUTED")
            /\ ~ret[t].val => sent[t].status = max_retries
            /\ sent[t].status >= 1

C10_RejectedSubmission ==
    \A t \in Callers :
        (op[t] = "execute_service" /\ last[t].kind = "post" /\ last[t].code # 200)
          => /\ pc[t] = "idle"
             /\ ret[t].kind = "bool" /\ ~ret[t].val
             /\ sent[t].post = 1 /\ sent[t].sleep = 0 /\ sent[t].status = 0

\* a submission answered 202: not an acknowledgement
C10_Witness ==
    /\ pc[Main] = "idle" /\ op[Main] = "execute_service"
    /\ last[Main].kind = "post" /\ last[Main].code = 202
    /\ ret[Main].kind = "bool" /\ ~ret[Main].val

\* C11: a call of get_cars() whose vehicle-list GET was answered with a status other
\* than 200 returns normally and hands that status code to its caller.
C11_GetCarsYieldsStatus ==
    \A t \in Callers :
        (pc[t] = "idle" /\ op[t] = "get_cars" /\ last[t].kind = "get" /\ last[t].code # 200)
          => ret[t] = RInt(last[t].code)

\* the vin the caller of a per-vehicle fetch passed
AskedVin(t) == IF op[t] = "get_car_navigation" THEN arg[t].sub ELSE arg[t].vin

\* C13: the GET of a per-vehicle fetch called with a vin goes to the endpoint of
\* that vin, whatever was fetched before.
C13_PerVehicleAddressing ==
    \A t \in Callers :
        (op[t] \in {"get_car_data", "get_car_navigation"} /\ last[t].kind = "get")
          => last[t].vin = AskedVin(t)

\* the step in which a cycle of update() that has passed the gate comes to its end
CycleEnds(t) ==
    /\ op[t] \in {"init", "update"}
    /\ \/ pc[t] \in {"upd_loop", "upd_proc"}
       \/ pc[t] = "upd_lock" /\ cur_time[t] - last_update_time > update_interval * Res
    /\ pc'[t] \in {"idle", "dead"}

\* ... on a vehicle fetch that came back as a status code
EndsOnFailedFetch(t) == pc[t] = "upd_proc" /\ res[t].kind = "int"

\* what update() does on full success: completion time stamped, one snapshot per
\* registered vehicle returned, in registry order
FullSuccess(t) ==
    /\ last_update_time' = now
    /\ last_update_time' >= cur_time[t]
    /\ ret'[t].kind = "list"
    /\ Len(ret'[t].val) = Len(cars.val)
    /\ \A k \in 1..Len(cars.val) : ret'[t].val[k].vin = cars.val[k].vin

\* the rest of C16: the gate leaves last_update_time alone, nothing but the end of a
\* cycle changes it, and the call after a failed cycle passes the gate
C16_Frame ==
    /\ \A t \in Callers :
         (Leaves(t, "upd_lock") /\ ~CycleEnds(t)) => last_update_time' = last_update_time
    /\ last_update_time' # last_update_time => \E t \in Callers : CycleEnds(t)
    /\ \A t \in Callers :
         (pc[t] = "idle" /\ pc'[t] = "upd_lock" /\ outcome[t] = "aborted")
           => cur_time'[t] - last_update_time > update_interval * Res

C18_IsUpdatedReflectsLastCall ==
    \A t \in Callers :
        (pc[t] = "idle" /\ op[t] = "update" /\ outcome[t] \in {"gated", "aborted", "ok"})
          => (is_updated <=> ret[t].kind = "list")

\* what C17 says of every state of a call of execute_service: as many sleeps as
\* polls, one more while a poll is due, and no sleep after EXECUTED or the 9th poll
C17_Counts(t) ==
    op[t] = "execute_service" =>
      /\ sent[t].sleep = sent[t].status + (IF pc[t] = "ex_poll" THEN 1 ELSE 0)
      /\ pc[t] \in {"ex_sleep", "ex_poll"}
           => /\ sent[t].status < max_retries
              /\ last[t].kind = "status" => last[t].text # "EXECUTED"

\* what C17 says of every step of such a call: a status GET follows a sleep at once,
\* a sleep lasts the interval, and nothing else in the call moves the clock
C17_Steps(t) ==
    /\ Sends(t, "status") => (pc[t] = "ex_poll" /\ sent[t].sleep = sent[t].status + 1)
    /\ Sends(t, "sleep")
         => /\ now' = now + interval * Res
            /\ pc'[t] = "ex_poll"
            /\ sent[t].sleep = sent[t].status
    /\ (op[t] = "execute_service" /\ pc[t] # "idle" /\ ~Sends(t, "sleep")) => now' = now

\* C17: in execute_service every status GET comes right after one sleep of the fixed
\* interval (10), none before the first sleep, no sleep follows the poll that reports
\* EXECUTED or the 9th poll, and a run that ends after k polls has slept k times, 10
\* each (3 sleeps, 30 in all, for PENDING, PENDING, EXECUTED).
C17_SleepThenPoll ==
    /\ [](\A t \in Callers : C17_Counts(t))
    /\ [][\A t \in Callers : C17_Steps(t)]_vars

\* PENDING, PENDING, EXECUTED: true after three polls and three sleeps
C17_Witness ==
    /\ pc[Main] = "idle" /\ op[Main] = "execute_service"
    /\ ret[Main].kind = "bool" /\ ret[Main].val
    /\ sent[Main].status = 3 /\ sent[Main].sleep = 3
    /\ last[Main].text = "EXECUTED"

\* the powertrain class C14 gives a snapshot, read off the snapshot's own keys
C14_Class(sn) ==
    CASE sn.charging_status /\ sn.remaining_fuel = "0" -> "electric"
      [] sn.charging_status /\ sn.remaining_fuel # "0" -> "hybrid"
      [] OTHER                                          -> "fuel"

\* C14: every snapshot update() makes of a fetched attribute map is 'electric' when
\* the map has charging_status and remaining_fuel = "0", 'hybrid' when it has
\* charging_status and another remaining_fuel, 'fuel' when it has no charging_status;
\* every snapshot of the list is one of the three.
C14_Classification ==
    /\ [](\A k \in 1..Len(cars_data) :
            /\ cars_data[k].type_of_car = C14_Class(cars_data[k])
            /\ cars_data[k].type_of_car \in {"electric", "hybrid", "fuel"})
    /\ [][\A t \in Callers :
            (Leaves(t, "upd_proc") /\ res[t].kind = "map"
               /\ res[t].val.remaining_fuel # "absent")
              => /\ Len(cars_data') = Len(cars_data) + 1
                 /\ cars_data'[Len(cars_data')].charging_status = res[t].val.charging_status
                 /\ cars_data'[Len(cars_data')].remaining_fuel = res[t].val.remaining_fuel
                 /\ cars_data'[Len(cars_data')].type_of_car = C14_Class(res[t].val)]_vars

\* an update() that returned an electric and a hybrid vehicle
C14_Witness ==
    /\ pc[Main] = "idle" /\ op[Main] = "update" /\ ret[Main].kind = "list"
    /\ Len(ret[Main].val) = 2
    /\ ret[Main].val[1].type_of_car = "electric" /\ ret[Main].val[1].remaining_fuel = "0"
    /\ ret[Main].val[2].type_of_car = "hybrid" /\ ret[Main].val[2].remaining_fuel = "35"

\* max(a, b)
Max(a, b) == IF a >= b THEN a ELSE b

\* C15: a call of update() is gated exactly when no more than
\* max(update_interval given at construction, 120) seconds have passed since
\* last_update_time.
C15_ConfiguredInterval ==
    [][\A t \in Callers :
         (Leaves(t, "upd_lock") /\ op[t] = "update")
           => (outcome'[t] = "gated"
                 <=> cur_time[t] - last_update_time
                       <= Max(arg_update_interval, 120) * Res)]_vars

\* caller t is between the validity check of an authenticated operation and the
\* request that follows it
InSegment(t) == pc[t] \in {"tv", "gc_post", "rcd_vin", "rcd_get", "ex_hdr", "ex_post"}

\* C12: the segments 'validate/refresh token, then issue the authenticated request' of
\* two concurrent callers never overlap; in particular two callers are never both about
\* to log in for the same expired token.
C12_SerializedSession ==
    \A t1, t2 \in Callers : (t1 # t2 /\ Constructed) => ~(InSegment(t1) /\ InSegment(t2))

\* caller t is inside the with-block of update()
InUpdate(t) == op[t] \in {"init", "update"} /\ pc[t] \notin {"idle", "dead", "upd_lock"}

\* C19: the lock is held only by a caller that is inside update(); in the step in
\* which update() returns or raises (full success, gate skipped, abort on a failed
\* fetch, an exception) its caller stops holding the lock.
C19_LockReleased ==
    /\ [](\A t \in Callers : lock = t => InUpdate(t))
    /\ [][\A t \in Callers :
            (op[t] \in {"init", "update"} /\ pc[t] # "idle" /\ pc'[t] \in {"idle", "dead"})
              => lock' # t]_vars

\* thread 1's update() ended in the KeyError of a map without remaining_fuel, and
\* thread 2 has since taken the lock for its own cycle
C19_Witness ==
    /\ pc[1] = "idle" /\ op[1] = "update" /\ outcome[1] = "raise"
    /\ ret[1] = RRaise("KeyError")
    /\ op[2] = "update" /\ lock = 2 /\ pc[2] = "upd_loop"

\* caller t is running a fetch cycle
InCycle(t) == op[t] = "update" /\ pc[t] \notin {"idle", "upd_lock"}

\* C20: at most one fetch cycle is in progress at any time; a cycle starts only more
\* than update_interval after last_update_time, by the caller's clock reading and by
\* the clock; and a caller whose clock reading is not later than the completion of
\* the last successful cycle is gated.
C20_Coalesce ==
    /\ [](\A t1, t2 \in Callers : t1 # t2 => ~(InCycle(t1) /\ InCycle(t2)))
    /\ [][\A t \in Callers :
            /\ (Leaves(t, "upd_lock") /\ pc'[t] = "upd_loop")
                 => /\ cur_time[t] - last_update_time > update_interval * Res
                    /\ now - last_update_time > update_interval * Res
            /\ (Leaves(t, "upd_lock") /\ cur_time[t] <= last_update_time)
                 => (outcome'[t] = "gated" /\ sent'[t] = NoneSent)]_vars

\* both threads read the clock before either had the lock; thread 1 ran a full cycle
\* over two vehicles, thread 2 was gated although its reading predates the completion
C20_Witness ==
    /\ pc[1] = "idle" /\ op[1] = "update" /\ outcome[1] = "ok" /\ Len(ret[1].val) = 2
    /\ pc[2] = "idle" /\ op[2] = "update" /\ outcome[2] = "gated"
    /\ cur_time[2] <= cur_time[1]
    /\ cur_time[2] < last_update_time

\* C21: when threads fetch concurrently, every GET of a per-vehicle dynamic fetch
\* called with a vin is addressed to the vin its own caller passed, whatever another
\* caller has written to the shared field bmw_vin in the meantime.
C21_NoCrossCallerVin ==
    [][\A t \in Callers :
         (Sends(t, "get") /\ arg[t].dt = "dynamic" /\ arg[t].vin # None)
           => last'[t].vin = arg[t].vin]_vars

====
